---- MODULE Spec2Model ----
(***************************************************************************)
(* Model of the NativeClass TypeScript transformer                         *)
(* (packages/webpack5/src/transformers/NativeClass/index.ts) and of the    *)
(* iOS font cache (getUIFontCached).                                       *)
(*                                                                         *)
(* Source text is modelled as a sequence of lexical units.  The marker     *)
(* tag '@NativeClass' is the two-unit sequence <<"@Native", "Class">>, so  *)
(* that a deletion inside a text can join "@Native" and "Class" into a new *)
(* occurrence of the tag, exactly as it can on characters.                 *)
(***************************************************************************)
EXTENDS Integers, Sequences, FiniteSets, TLC

VARIABLES
    \* ---- the source file handed to the transformer
    nodeCount,      \* the tree has the nodes 1..nodeCount; 0 is the SourceFile
    kind,           \* node -> syntax kind
    parent,         \* node -> enclosing node (0: a top-level statement)
    decorators,     \* node -> the full texts of its decorators, in order
    \* ---- the traversal (visitNodes / visitNode / visitEachChild)
    pc,             \* "idle" | "visiting" | "done" | "failed"
    stack,          \* nodes whose visitEachChild is running, innermost first
    out,            \* node -> "unvisited" | "same" | "updated" | "placeholder"
    visits,         \* node -> number of visitNode calls made on it
    detected,       \* node -> what isNativeClassExtension returned for it
    compileLog,     \* node -> how transpileModule ended for it
    outStatements,  \* the statement list given to updateSourceFile
    outFile,        \* "none" | "same" | "updated": the SourceFile returned
    \* ---- one call of createHelper, on text
    hpc,            \* "off" | "start" | "stripped" | "emitted" | "done"
    hDecorators,    \* the decorators of the matched declaration, as written
    hMembers,       \* the members of its body, as written
    fragment,       \* node.getText() after the first replace
    emitted,        \* outputText of transpileModule
    normalized,     \* outputText after the second replace
    \* ---- the font cache
    uiFontCache,    \* cache key -> UIFont object
    createCalls,    \* cache key -> calls of NativeScriptUtils.createUIFont
    firstStored,    \* cache key -> the object the first call with it stored
    requested,      \* the cache keys getUIFontCached was called with
    lastKey,        \* the cache key of the latest getUIFontCached call
    lastReturn,     \* what that call returned
    calls,          \* getUIFontCached calls made
    nextFont        \* native font objects made so far

travVars == <<nodeCount, kind, parent, decorators, pc, stack, out, visits,
              detected, compileLog, outStatements, outFile>>

helperVars == <<hpc, hDecorators, hMembers, fragment, emitted, normalized>>

fontVars == <<uiFontCache, createCalls, firstStored, requested, lastKey,
              lastReturn, calls, nextFont>>

vars == <<travVars, helperVars, fontVars>>

----------------------------------------------------------------------------
(* Bounds *)

MaxNodes == 3

MaxDecorators == 2

MaxMembers == 1

MaxEmitted == 3

MaxCalls == 3

----------------------------------------------------------------------------
(* Text *)

\* the literal '@NativeClass'
TAG == <<"@Native", "Class">>

WhiteSpace == {" ", "\n"}

\* t occurs in s at the 1-based position i
OccursAt(s, t, i) ==
    /\ i >= 1
    /\ i + Len(t) - 1 <= Len(s)
    /\ \A j \in 1..Len(t) : s[i + j - 1] = t[j]

\* String.prototype.indexOf: 0-based index of the first occurrence, or -1
IndexOf(s, t) ==
    LET hits == {i \in 1..Len(s) : OccursAt(s, t, i)}
    IN  IF hits = {} THEN -1
        ELSE (CHOOSE i \in hits : \A k \in hits : i <= k) - 1

\* String.prototype.trim
Trim(s) ==
    LET keep == {i \in 1..Len(s) : s[i] \notin WhiteSpace}
    IN  IF keep = {} THEN <<>>
        ELSE LET lo == CHOOSE i \in keep : \A k \in keep : i <= k
                 hi == CHOOSE i \in keep : \A k \in keep : i >= k
             IN  SubSeq(s, lo, hi)

----------------------------------------------------------------------------
(* The input trees *)

Kinds == {"ClassDeclaration", "ClassExpression", "FunctionDeclaration"}

\* Decorator lists a class can carry: none; one other decorator; the marker
\* (with leading trivia); another decorator followed by the marker with an
\* argument list.
DecoratorLists ==
    { <<>>,
      << <<"@", "x">> >>,
      << <<" ", "@Native", "Class">> >>,
      << <<"@", "x">>, <<"@Native", "Class", "(", ")">> >> }

Nodes == 1..nodeCount

Children(p) == {n \in Nodes : parent[n] = p}

RECURSIVE Ancestors(_)
Ancestors(n) ==
    IF parent[n] = 0 THEN {} ELSE {parent[n]} \cup Ancestors(parent[n])

Statements == Children(0)

Min(S) == CHOOSE x \in S : \A y \in S : x <= y

\* the members of a set of nodes in document order
RECURSIVE InOrder(_)
InOrder(S) == IF S = {} THEN <<>> ELSE <<Min(S)>> \o InOrder(S \ {Min(S)})

----------------------------------------------------------------------------
(* isNativeClassExtension *)

canHaveDecorators(n) == kind[n] \in {"ClassDeclaration", "ClassExpression"}

\* ts.getDecorators: undefined when the node carries none
getDecorators(n) ==
    [defined |-> decorators[n] # <<>>, list |-> decorators[n]]

\* a faulty variant: indexOf(...) > 0
isNativeClassExtension_positiveIndex(n) ==
    IF ~canHaveDecorators(n) THEN "false"
    ELSE IF ~getDecorators(n).defined THEN "undefined"
    ELSE LET ds == getDecorators(n).list
             matching == {i \in 1..Len(ds) : IndexOf(Trim(ds[i]), TAG) > 0}
         IN  IF Cardinality(matching) > 0 THEN "true" ELSE "false"

\* The value of the && chain: false, undefined, or the boolean of the last
\* operand.
isNativeClassExtension(n) ==
    IF ~canHaveDecorators(n) THEN "false"
    ELSE IF ~getDecorators(n).defined THEN "undefined"
    ELSE LET ds == getDecorators(n).list
             matching == {i \in 1..Len(ds) : IndexOf(Trim(ds[i]), TAG) > -1}
         IN  IF Cardinality(matching) > 0 THEN "true" ELSE "false"

Truthy(v) == v = "true"

\* a faulty variant: ts.isClassLike(node)
isClassDeclaration_classLike(n) ==
    kind[n] \in {"ClassDeclaration", "ClassExpression"}

isClassDeclaration(n) == kind[n] = "ClassDeclaration"

\* the condition of visitNode's if
Matches(n) == isClassDeclaration(n) /\ Truthy(isNativeClassExtension(n))

----------------------------------------------------------------------------
(* createHelper, visitEachChild, visitNodes, updateSourceFile *)

\* How ts.transpileModule can end: output without diagnostics; output for a
\* fragment with syntax errors (reported in the result's diagnostics, which
\* are requested with reportDiagnostics only); an exception.
TranspileOutcomes == {"ok", "syntaxError", "throws"}

\* a faulty variant: a new node is built whatever the children
visitEachChild_alwaysNew(p, o) == "updated"

\* ts.visitEachChild returns the node itself when every child was returned
\* unchanged and an updated copy otherwise.
visitEachChild(p, o) ==
    IF \E c \in Children(p) : o[c] # "same" THEN "updated" ELSE "same"

\* ts.visitNodes: one result per statement, in order
visitNodes(o) ==
    LET st == InOrder(Statements)
    IN  [i \in 1..Len(st) |-> <<o[st[i]], st[i]>>]

\* a faulty variant: a new SourceFile whatever the statements
updateSourceFile_alwaysNew(stmts) == "updated"

\* ts.factory.updateSourceFile returns the source itself when the statement
\* list is the one it already has.
updateSourceFile(stmts) ==
    IF \E i \in 1..Len(stmts) : stmts[i][1] # "same" THEN "updated" ELSE "same"

----------------------------------------------------------------------------
(* The traversal *)

Pending(p) == {c \in Children(p) : out[c] = "unvisited"}

InitTree ==
    /\ nodeCount \in 0..MaxNodes
    /\ kind \in [1..nodeCount -> Kinds]
    /\ parent \in [1..nodeCount -> 0..MaxNodes]
    /\ \A n \in 1..nodeCount : parent[n] < n
    /\ decorators \in [1..nodeCount -> DecoratorLists]
    /\ \A n \in 1..nodeCount :
          /\ kind[n] = "FunctionDeclaration" => decorators[n] = <<>>
          /\ kind[n] = "ClassExpression" =>
                decorators[n] \in {<<>>, << <<" ", "@Native", "Class">> >>}

InitTraversal ==
    /\ pc = "idle"
    /\ stack = <<>>
    /\ out = [n \in 1..nodeCount |-> "unvisited"]
    /\ visits = [n \in 1..nodeCount |-> 0]
    /\ detected = [n \in 1..nodeCount |-> "none"]
    /\ compileLog = [n \in 1..nodeCount |-> "none"]
    /\ outStatements = <<>>
    /\ outFile = "none"

\* createHelper is not running
HelperOff ==
    /\ hpc = "off"
    /\ hDecorators = <<>>
    /\ hMembers = <<>>
    /\ fragment = <<>>
    /\ emitted = <<>>
    /\ normalized = <<>>

\* const uiFontCache = new Map()
InitFont ==
    /\ uiFontCache = <<>>
    /\ createCalls = <<>>
    /\ firstStored = <<>>
    /\ requested = {}
    /\ lastKey = <<>>
    /\ lastReturn = 0
    /\ calls = 0
    /\ nextFont = 0

Init == InitTree /\ InitTraversal /\ HelperOff /\ InitFont

\* (source) => ...: the transformer is called on the SourceFile
Transform ==
    /\ pc = "idle"
    /\ pc' = "visiting"
    /\ stack' = <<0>>
    /\ UNCHANGED <<nodeCount, kind, parent, decorators, out, visits, detected,
                   compileLog, outStatements, outFile>>
    /\ UNCHANGED <<helperVars, fontVars>>

\* visitNode(n), taking the branch that returns createHelper(n)
VisitReplace ==
    /\ pc = "visiting"
    /\ Pending(Head(stack)) # {}
    /\ LET n == Min(Pending(Head(stack)))
       IN  /\ Matches(n)
           /\ visits' = [visits EXCEPT ![n] = @ + 1]
           /\ detected' = [detected EXCEPT ![n] = isNativeClassExtension(n)]
           /\ \E r \in TranspileOutcomes :
                 /\ compileLog' = [compileLog EXCEPT ![n] = r]
                 /\ IF r = "throws"
                    THEN /\ pc' = "failed"
                         /\ stack' = <<>>
                         /\ out' = out
                    ELSE /\ pc' = pc
                         /\ stack' = stack
                         /\ out' = [out EXCEPT ![n] = "placeholder"]
    /\ UNCHANGED <<nodeCount, kind, parent, decorators, outStatements, outFile>>
    /\ UNCHANGED <<helperVars, fontVars>>

\* visitNode(n), taking the branch that calls ts.visitEachChild(n, ...)
VisitDescend ==
    /\ pc = "visiting"
    /\ Pending(Head(stack)) # {}
    /\ LET n == Min(Pending(Head(stack)))
       IN  /\ ~Matches(n)
           /\ visits' = [visits EXCEPT ![n] = @ + 1]
           /\ detected' = [detected EXCEPT ![n] =
                  IF isClassDeclaration(n) THEN isNativeClassExtension(n) ELSE @]
           /\ stack' = <<n>> \o stack
    /\ UNCHANGED <<nodeCount, kind, parent, decorators, pc, out, compileLog,
                   outStatements, outFile>>
    /\ UNCHANGED <<helperVars, fontVars>>

\* ts.visitEachChild(p, ...) returns
Return ==
    /\ pc = "visiting"
    /\ stack # <<>>
    /\ Head(stack) # 0
    /\ Pending(Head(stack)) = {}
    /\ out' = [out EXCEPT ![Head(stack)] = visitEachChild(Head(stack), out)]
    /\ stack' = Tail(stack)
    /\ UNCHANGED <<nodeCount, kind, parent, decorators, pc, visits, detected,
                   compileLog, outStatements, outFile>>
    /\ UNCHANGED <<helperVars, fontVars>>

\* ts.visitNodes(source.statements, ...) returns; ts.factory.updateSourceFile
Finish ==
    /\ pc = "visiting"
    /\ stack = <<0>>
    /\ Pending(0) = {}
    /\ outStatements' = visitNodes(out)
    /\ outFile' = updateSourceFile(visitNodes(out))
    /\ pc' = "done"
    /\ stack' = <<>>
    /\ UNCHANGED <<nodeCount, kind, parent, decorators, out, visits, detected,
                   compileLog>>
    /\ UNCHANGED <<helperVars, fontVars>>

Next ==
    \/ Transform
    \/ VisitReplace
    \/ VisitDescend
    \/ Return
    \/ Finish

Spec == Init /\ [][Next]_vars

----------------------------------------------------------------------------
(* createHelper on text.  Units of a declaration's text: "@Native" and
   "Class" (together the tag), "@", "(", ")", "{", "}", "=", "'", "class",
   the line terminators "\n" and "\r", the blank " ", and "x" for any run
   of other characters.  Units of an emitted text: "D(" for
   'Object.defineProperty(', "E" for 'enumerable: false' (with any white
   space after the colon), "T" for 'enumerable: true', "(", ")", "{", "}",
   and "x". *)

\* Decorators as written on a matched declaration: @NativeClass,
\* @NativeClass(), an argument list over two lines, an argument list with a
\* call in it, an argument list over two lines ending in CR LF, and another
\* decorator.
HelperDecoratorTexts ==
    { <<"@Native", "Class">>,
      <<"@Native", "Class", "(", ")">>,
      <<"@Native", "Class", "(", "x", "\n", "x", ")">>,
      <<"@Native", "Class", "(", "x", "(", ")", ")">>,
      <<"@Native", "Class", "(", "x", "\r", "\n", "x", ")">>,
      <<"@", "x", "(", ")">> }

\* Members as written: a method, a property initialised with a string that
\* holds the tag, and one whose string holds the tag inside a split tag.
MemberTexts ==
    { <<"x", "(", ")", "{", "}">>,
      <<"x", "=", "'", "@Native", "Class", "'">>,
      <<"x", "=", "'", "@Native", "@Native", "Class", "Class", "'">> }

\* Statements transpileModule emits for the ES5 target: an accessor
\* installed with enumerable: false; a defineProperty call without that
\* attribute; an object literal with the attribute; a call with an object
\* literal argument; a defineProperty call whose options hold another
\* defineProperty call before their own attribute; any other statement.
EmittedStatements ==
    { <<"D(", "x", "{", "x", "E", "x", "}", ")">>,
      <<"D(", "x", "{", "x", "}", ")">>,
      <<"x", "{", "E", "}">>,
      <<"x", "(", "{", "}", ")">>,
      <<"D(", "x", "{", "x", "D(", "x", "{", "E", "}", ")", "E", "}", ")">>,
      <<"x">> }

\* the sequences over S of length lo..hi
SeqsOf(S, lo, hi) == UNION {[1..k -> S] : k \in lo..hi}

RECURSIVE Concat(_)
Concat(ss) == IF ss = <<>> THEN <<>> ELSE Head(ss) \o Concat(Tail(ss))

\* each text followed by the separator
RECURSIVE Lines(_, _)
Lines(ss, sep) ==
    IF ss = <<>> THEN <<>> ELSE Head(ss) \o sep \o Lines(Tail(ss), sep)

\* node.getText() of the declaration
getText(ds, ms) ==
    Lines(ds, <<"\n">>) \o <<"class", "{">> \o Lines(ms, <<"\n">>) \o <<"}">>

\* what . matches without the s flag: anything but a line terminator
Dot(u) == u \notin {"\n", "\r"}

\* /@NativeClass(\((.|\n)*?\))?/ matched at i: the index of its last unit.
\* The optional group is taken when a ")" follows the "(" with nothing but
\* . and \n between; the lazy star stops at the first such ")".
MarkerMatchEnd(s, i) ==
    LET j == i + Len(TAG)
        closes == IF j <= Len(s) /\ s[j] = "("
                  THEN {k \in (j + 1)..Len(s) :
                           /\ s[k] = ")"
                           /\ \A m \in (j + 1)..(k - 1) : Dot(s[m]) \/ s[m] = "\n"}
                  ELSE {}
    IN  IF closes = {} THEN j - 1 ELSE Min(closes)

\* .replace(/@NativeClass(\((.|\n)*?\))?/gm, ''): one scan from the left,
\* each match deleted, the scan resumed after the match
RECURSIVE StripFrom(_, _)
StripFrom(s, i) ==
    IF i > Len(s) THEN <<>>
    ELSE IF OccursAt(s, TAG, i) THEN StripFrom(s, MarkerMatchEnd(s, i) + 1)
    ELSE <<s[i]>> \o StripFrom(s, i + 1)

StripMarker(s) == StripFrom(s, 1)

\* .replace(/(Object\.defineProperty\(.*?{.*?)(enumerable:\s*false)(.*?}\))/gs,
\*          '$1enumerable: true$3'): a match starts at the first
\* 'Object.defineProperty(' left, runs over the first "{" after it and the
\* first 'enumerable: false' after that, and ends with the first "})" after
\* that; the attribute is rewritten and the scan resumed after the match.
RECURSIVE NormalizeFrom(_, _)
NormalizeFrom(s, i) ==
    LET rest == SubSeq(s, i, Len(s))
        ds == {p \in i..Len(s) : s[p] = "D("}
    IN  IF ds = {} THEN rest
        ELSE LET braces == {j \in (Min(ds) + 1)..Len(s) : s[j] = "{"}
             IN  IF braces = {} THEN rest
                 ELSE LET es == {k \in (Min(braces) + 1)..Len(s) : s[k] = "E"}
                      IN  IF es = {} THEN rest
                          ELSE LET ends == {m \in (Min(es) + 1)..(Len(s) - 1) :
                                               s[m] = "}" /\ s[m + 1] = ")"}
                               IN  IF ends = {} THEN rest
                                   ELSE SubSeq(s, i, Min(es) - 1)
                                        \o <<"T">>
                                        \o SubSeq(s, Min(es) + 1, Min(ends) + 1)
                                        \o NormalizeFrom(s, Min(ends) + 2)

Normalize(s) == NormalizeFrom(s, 1)

\* createHelper is entered with a declaration visitNode matched: one of its
\* decorators holds the tag
InitHelper ==
    /\ hpc = "start"
    /\ hDecorators \in SeqsOf(HelperDecoratorTexts, 1, MaxDecorators)
    /\ \E i \in 1..Len(hDecorators) :
          \E k \in 1..Len(hDecorators[i]) : OccursAt(hDecorators[i], TAG, k)
    /\ hMembers \in SeqsOf(MemberTexts, 0, MaxMembers)
    /\ fragment = <<>>
    /\ emitted = <<>>
    /\ normalized = <<>>

\* no source file is being transformed
TreeOff ==
    /\ nodeCount = 0
    /\ kind = <<>>
    /\ parent = <<>>
    /\ decorators = <<>>
    /\ pc = "idle"
    /\ stack = <<>>
    /\ out = <<>>
    /\ visits = <<>>
    /\ detected = <<>>
    /\ compileLog = <<>>
    /\ outStatements = <<>>
    /\ outFile = "none"

\* node.getText().replace(...)
Strip ==
    /\ hpc = "start"
    /\ fragment' = StripMarker(getText(hDecorators, hMembers))
    /\ hpc' = "stripped"
    /\ UNCHANGED <<hDecorators, hMembers, emitted, normalized>>
    /\ UNCHANGED <<travVars, fontVars>>

\* ts.transpileModule(...).outputText: the compiler's emission
Transpile ==
    /\ hpc = "stripped"
    /\ \E stmts \in SeqsOf(EmittedStatements, 0, MaxEmitted) :
          emitted' = Concat(stmts)
    /\ hpc' = "emitted"
    /\ UNCHANGED <<hDecorators, hMembers, fragment, normalized>>
    /\ UNCHANGED <<travVars, fontVars>>

\* .outputText.replace(...) and ts.factory.createIdentifier
Patch ==
    /\ hpc = "emitted"
    /\ normalized' = Normalize(emitted)
    /\ hpc' = "done"
    /\ UNCHANGED <<hDecorators, hMembers, fragment, emitted>>
    /\ UNCHANGED <<travVars, fontVars>>

NextHelper ==
    \/ Strip
    \/ Transpile
    \/ Patch

InitCreateHelper == TreeOff /\ InitHelper /\ InitFont

SpecHelper == InitCreateHelper /\ [][NextHelper]_vars

----------------------------------------------------------------------------
(* The font cache.  A string is a sequence of units; ":" is the separator
   computeFontCacheKey joins with. *)

\* Array.prototype.join
RECURSIVE Join(_, _)
Join(parts, sep) ==
    IF parts = <<>> THEN <<>>
    ELSE IF Len(parts) = 1 THEN parts[1]
    ELSE parts[1] \o sep \o Join(Tail(parts), sep)

\* .replace(/'/g, '').replace(/[\s,]/g, '_')
RECURSIVE KeyText(_)
KeyText(t) ==
    IF t = <<>> THEN <<>>
    ELSE IF Head(t) = "'" THEN KeyText(Tail(t))
    ELSE IF Head(t) \in {" ", "\n", ","} THEN <<"_">> \o KeyText(Tail(t))
    ELSE <<Head(t)>> \o KeyText(Tail(t))

computeFontCacheKey(fd) ==
    Join(<< Join(fd.fontFamily, <<":">>),
            <<ToString(fd.fontSize)>>,
            <<fd.fontWeight>>,
            KeyText(fd.fontVariationText),
            <<ToString(fd.isBold)>>,
            <<ToString(fd.isItalic)>> >>, <<":">>)

getNativeFontWeight(w) ==
    CASE w \in {"normal", "400", "undefined"} -> "UIFontWeightRegular"
      [] w \in {"bold", "700"} -> "UIFontWeightBold"
      [] OTHER -> "undefined"

\* The Font objects getUIFont is called on.  fontFamily is the list
\* parseFontFamily gives; fontSize 0 stands for an unset size;
\* fontVariationText is what FontVariationSettings.toString gives for the
\* font's settings and fontVariationLength the number of settings.
Fonts ==
    [ fontFamily : { << <<"a">> >>, << <<"a">>, <<"b">> >>, << <<"a", ":", "b">> >> },
      fontSize : {0, 12},
      fontWeight : {"normal", "400", "bold"},
      variation : { [text |-> <<"null">>, length |-> 0],
                    [text |-> <<"'", "w", "'", " ", "1">>, length |-> 1] },
      isItalic : BOOLEAN ]

\* defaultFont.pointSize
DefaultPointSizes == {12}

\* the object literal getUIFont builds (isBold is the Font's getter, true
\* of a bold weight)
FontDescriptor(f, pointSize) ==
    [ fontFamily |-> f.fontFamily,
      fontSize |-> IF f.fontSize # 0 THEN f.fontSize ELSE pointSize,
      fontWeight |-> getNativeFontWeight(f.fontWeight),
      fontVariationText |-> f.variation.text,
      fontVariationLength |-> f.variation.length,
      isBold |-> f.fontWeight = "bold",
      isItalic |-> f.isItalic ]

\* a faulty variant: uiFontCache.has(fontDescriptor), never true
cacheHas_descriptor(cache, key) == FALSE

\* uiFontCache.has(cacheKey)
cacheHas(cache, key) == key \in DOMAIN cache

\* Font.getUIFont(defaultFont), that is getUIFontCached(descriptor)
GetUIFont ==
    /\ calls < MaxCalls
    /\ \E f \in Fonts, ps \in DefaultPointSizes :
          LET fd == FontDescriptor(f, ps)
              cacheKey == computeFontCacheKey(fd)
              \* createUIFont's object, or the CTFont made from it when the
              \* descriptor has variation settings
              made == IF fd.fontVariationLength > 0 THEN 2 ELSE 1
              uiFont == nextFont + made
          IN  /\ lastKey' = cacheKey
              /\ requested' = requested \cup {cacheKey}
              /\ calls' = calls + 1
              /\ IF cacheHas(uiFontCache, cacheKey)
                 THEN /\ lastReturn' = uiFontCache[cacheKey]
                      /\ UNCHANGED <<uiFontCache, createCalls, firstStored,
                                     nextFont>>
                 ELSE /\ nextFont' = uiFont
                      /\ uiFontCache' =
                            [k \in DOMAIN uiFontCache \cup {cacheKey} |->
                                IF k = cacheKey THEN uiFont ELSE uiFontCache[k]]
                      /\ createCalls' =
                            [k \in DOMAIN createCalls \cup {cacheKey} |->
                                IF k = cacheKey
                                THEN (IF k \in DOMAIN createCalls
                                      THEN createCalls[k] ELSE 0) + 1
                                ELSE createCalls[k]]
                      /\ firstStored' =
                            IF cacheKey \in DOMAIN firstStored THEN firstStored
                            ELSE [k \in DOMAIN firstStored \cup {cacheKey} |->
                                     IF k = cacheKey THEN uiFont
                                     ELSE firstStored[k]]
                      /\ lastReturn' = uiFont
    /\ UNCHANGED <<travVars, helperVars>>

NextFont == GetUIFont

InitFontModule == TreeOff /\ HelperOff /\ InitFont

SpecFont == InitFontModule /\ [][NextFont]_vars

----------------------------------------------------------------------------
(* What the claims speak about, stated on the tree itself *)

\* the text d contains the tag as a substring
HasTag(d) == \E i \in 1..Len(d) : OccursAt(d, TAG, i)

\* a class declaration the detector answers truthy for
Replaceable(n) ==
    kind[n] = "ClassDeclaration" /\ Truthy(isNativeClassExtension(n))

\* n lies inside such a class declaration
Enclosed(n) == \E a \in Ancestors(n) : Replaceable(a)

Placeholders == {n \in Nodes : out[n] = "placeholder"}

HasReplacedDescendant(n) ==
    \E m \in Nodes : n \in Ancestors(m) /\ out[m] = "placeholder"

----------------------------------------------------------------------------
(* C1: for every class declaration the detector was asked about, its answer
   is one of false, undefined and true, and it is truthy exactly when the
   node can have decorators and one of its decorators' full text contains
   '@NativeClass'; for a declaration without decorators the answer is the
   falsy undefined. *)
C1_Detector ==
    \A n \in Nodes :
        detected[n] # "none" =>
            /\ detected[n] \in {"false", "undefined", "true"}
            /\ Truthy(detected[n]) <=>
                  /\ kind[n] \in {"ClassDeclaration", "ClassExpression"}
                  /\ \E i \in 1..Len(decorators[n]) : HasTag(decorators[n][i])
            /\ decorators[n] = <<>> => detected[n] = "undefined"

\* the detector has answered for a declaration without decorators, for one
\* with decorators none of which has the tag, and for one with the tag
C1_Witness ==
    /\ \E n \in Nodes : detected[n] = "undefined" /\ decorators[n] = <<>>
    /\ \E n \in Nodes : detected[n] = "false" /\ decorators[n] # <<>>
    /\ \E n \in Nodes : detected[n] = "true"

(* C2: no node is visited twice; only matching class declarations that are
   not inside a matching class declaration become placeholders; nothing
   inside a matching class declaration is ever visited; and when the pass
   is done every node outside the matching class declarations has been
   visited once and is a placeholder exactly when it is a matching class
   declaration, at whatever depth. *)
C2_Traversal ==
    /\ \A n \in Nodes : visits[n] <= 1
    /\ \A n \in Nodes :
          out[n] = "placeholder" => Replaceable(n) /\ ~Enclosed(n)
    /\ \A n \in Nodes :
          Enclosed(n) => visits[n] = 0 /\ out[n] = "unvisited"
    /\ pc = "done" =>
          \A n \in Nodes :
              ~Enclosed(n) =>
                  /\ visits[n] = 1
                  /\ out[n] = "placeholder" <=> Replaceable(n)

\* a finished pass that replaced a marked class nested in a class that does
\* not match, and left the inside of the replaced class alone
C2_Witness ==
    /\ pc = "done"
    /\ \E n, m \in Nodes :
          /\ out[n] = "placeholder"
          /\ parent[n] # 0
          /\ kind[parent[n]] = "ClassDeclaration"
          /\ parent[m] = n

(* C3, as claimed: when the pass is done the number of placeholders is the
   number of class declarations in the whole tree the detector answers
   truthy for. *)
C3_Original ==
    pc = "done" =>
        Cardinality(Placeholders) = Cardinality({n \in Nodes : Replaceable(n)})

(* C3, amended: when the pass is done the number of placeholders is the
   number of class declarations the detector answers truthy for that are
   not inside another such class declaration. *)
C3_Amended ==
    pc = "done" =>
        Cardinality(Placeholders) =
            Cardinality({n \in Nodes : Replaceable(n) /\ ~Enclosed(n)})

\* a finished pass over a marked class that holds another marked class
C3_Witness ==
    /\ pc = "done"
    /\ \E n, m \in Nodes :
          /\ Replaceable(n)
          /\ Replaceable(m)
          /\ parent[m] = n
          /\ out[n] = "placeholder"

(* C4, as claimed: when the pass is done every node of the output tree that
   is not a placeholder is the node of the input tree. *)
C4_Original ==
    pc = "done" =>
        \A n \in Nodes :
            (~Enclosed(n) /\ out[n] # "placeholder") => out[n] = "same"

(* C4, amended: when the pass is done every node that is neither replaced,
   nor inside a replaced declaration, is the node of the input tree exactly
   when no declaration below it was replaced; the SourceFile returned is the
   input one exactly when nothing was replaced. *)
C4_Amended ==
    pc = "done" =>
        /\ \A n \in Nodes :
              (~Enclosed(n) /\ out[n] # "placeholder") =>
                  /\ out[n] \in {"same", "updated"}
                  /\ out[n] = "same" <=> ~HasReplacedDescendant(n)
        /\ outFile = "same" <=> Placeholders = {}

\* a finished pass where a node holds a replaced declaration and a sibling
\* of that declaration
C4_Witness ==
    /\ pc = "done"
    /\ \E a, n, m \in Nodes :
          /\ parent[n] = a
          /\ parent[m] = a
          /\ out[n] = "placeholder"
          /\ out[m] = "same"
          /\ out[a] = "updated"

(* C5, as claimed: with N the number of matching declarations of the file
   and M the number of statements that are not matching declarations, the
   output has N + M statements, each statement that is not a matching
   declaration is unchanged, and with N = 0 the input SourceFile is
   returned. *)
C5_Original ==
    pc = "done" =>
        LET st == InOrder(Statements)
            N == Cardinality({n \in Nodes : Replaceable(n)})
            M == Cardinality({s \in Statements : ~Replaceable(s)})
        IN  /\ Len(outStatements) = N + M
            /\ \A i \in 1..Len(st) :
                  ~Replaceable(st[i]) =>
                      (i <= Len(outStatements) /\ outStatements[i] = <<"same", st[i]>>)
            /\ N = 0 => outFile = "same"

(* C5, amended: the output has as many statements as the input, in the same
   order; a top-level matching declaration is substituted by its placeholder
   at its position; a top-level statement that neither is nor holds a
   matching declaration is the same node; and when no class declaration at
   any depth matches, the input SourceFile is returned. *)
C5_Amended ==
    pc = "done" =>
        LET st == InOrder(Statements)
        IN  /\ Len(outStatements) = Len(st)
            /\ \A i \in 1..Len(st) :
                  /\ outStatements[i][2] = st[i]
                  /\ Replaceable(st[i]) => outStatements[i][1] = "placeholder"
                  /\ (/\ ~Replaceable(st[i])
                      /\ \A m \in Nodes : st[i] \in Ancestors(m) => ~Replaceable(m))
                         => outStatements[i][1] = "same"
            /\ (\A n \in Nodes : ~Replaceable(n)) =>
                  /\ outFile = "same"
                  /\ \A i \in 1..Len(st) : outStatements[i][1] = "same"

\* a finished pass over a file of two statements: one that does not match
\* but holds a matching declaration, then a matching declaration
C5_Witness ==
    /\ pc = "done"
    /\ Len(outStatements) = 2
    /\ outStatements[1][1] = "updated"
    /\ outStatements[2][1] = "placeholder"

(* C9, as claimed: if the nested compile of a matched declaration fails,
   with a syntax error or an exception, no output SourceFile is produced
   and no placeholder stands for that declaration. *)
C9_Claim ==
    \A n \in Nodes :
        compileLog[n] \in {"syntaxError", "throws"} =>
            /\ outFile = "none"
            /\ out[n] # "placeholder"

(* C6, as claimed: the text left by the substitution holds no occurrence of
   the tag. *)
C6_Claim ==
    hpc \in {"stripped", "emitted", "done"} => ~HasTag(fragment)

\* the "(" at position 3 of d is closed by the last unit of d
RECURSIVE ParenDepth(_, _)
ParenDepth(d, k) ==
    IF k < 3 THEN 0
    ELSE ParenDepth(d, k - 1)
         + (IF d[k] = "(" THEN 1 ELSE IF d[k] = ")" THEN -1 ELSE 0)

\* d is the tag with its whole optional parenthesized argument list
IsMarkerAnnotation(d) ==
    /\ OccursAt(d, TAG, 1)
    /\ \/ Len(d) = Len(TAG)
       \/ /\ d[3] = "("
          /\ ParenDepth(d, Len(d)) = 0
          /\ \A k \in 3..(Len(d) - 1) : ParenDepth(d, k) > 0

\* the declaration's text with exactly the marker annotations deleted
ExpectedFragment(ds, ms) ==
    getText([i \in 1..Len(ds) |->
                IF IsMarkerAnnotation(ds[i]) THEN <<>> ELSE ds[i]], ms)

(* C7, as claimed: the fragment is the declaration's text with exactly the
   marker annotations deleted, each with its whole argument list; every
   other decorator and every member is kept as written. *)
C7_Claim ==
    hpc \in {"stripped", "emitted", "done"} =>
        fragment = ExpectedFragment(hDecorators, hMembers)

\* the brackets open before position k + 1 of s, innermost first
RECURSIVE Context(_, _)
Context(s, k) ==
    IF k = 0 THEN <<>>
    ELSE LET c == Context(s, k - 1)
         IN  IF s[k] \in {"D(", "(", "{"} THEN <<s[k]>> \o c
             ELSE IF s[k] \in {")", "}"} /\ c # <<>> THEN Tail(c)
             ELSE c

\* position k is directly inside the object literal that is an argument of
\* an Object.defineProperty call
InOptions(s, k) ==
    LET c == Context(s, k - 1)
    IN  Len(c) >= 2 /\ c[1] = "{" /\ c[2] = "D("

\* the emitted text with 'enumerable: false' rewritten in the options of
\* every Object.defineProperty call and nowhere else
ExpectedNormalized(s) ==
    [k \in 1..Len(s) |-> IF s[k] = "E" /\ InOptions(s, k) THEN "T" ELSE s[k]]

(* C8, as claimed: the normalized text is the emitted text with the
   attribute rewritten in the options object of every Object.defineProperty
   call that holds it, and nothing else altered. *)
C8_Claim ==
    hpc = "done" => normalized = ExpectedNormalized(emitted)

(* C10: the native font has been created exactly once for every cache key
   requested so far; the cache holds, for every such key, the object the
   first call with that key stored; the latest call returned that object;
   and the cache has as many entries as keys were requested. *)
C10_FontCache ==
    /\ DOMAIN createCalls = requested
    /\ \A k \in requested : createCalls[k] = 1
    /\ DOMAIN uiFontCache = requested
    /\ DOMAIN firstStored = requested
    /\ \A k \in requested : uiFontCache[k] = firstStored[k]
    /\ calls > 0 => lastReturn = firstStored[lastKey]
    /\ Cardinality(DOMAIN uiFontCache) = Cardinality(requested)

\* three calls, two of them with a new key and the latest one with a key
\* already cached
C10_Witness ==
    /\ calls = 3
    /\ Cardinality(requested) = 2
    /\ createCalls[lastKey] = 1
    /\ lastReturn < nextFont

====
